---- MODULE Spec2Model ----
(***************************************************************************)
(* Model of the itinerary sorting service: the sort registry and engine    *)
(* (src/app/src/sorts/base.py), the currency rate cache with its           *)
(* diskcache lock (src/app/src/currency/fetch.py), the rate provider's     *)
(* error wrapper (src/app/src/currency/apis) and the mapping of failures   *)
(* to HTTP statuses (src/app/src/app.py).                                  *)
(*                                                                         *)
(* Values.  Python's None is the empty sequence <<>> and a present value x *)
(* is <<x>>.  A Rates dict is a function from currency codes to ratios, a  *)
(* ratio being <<numerator, denominator>>.  Every ratio of the model is 0  *)
(* or a power of two and every amount and duration is a small integer, so  *)
(* the IEEE-754 division and multiplication of the sort keys are exact on  *)
(* the model's inputs and equal the rational operations used here.         *)
(*                                                                         *)
(* Time.  One unit of the clock is a day (86400 seconds).                  *)
(*                                                                         *)
(* Scheduling.  Requests are asyncio tasks.  Each task lives in the event  *)
(* loop of one worker process; a loop runs one task at a time, from one    *)
(* await of network I/O to the next.  Workers share the diskcache          *)
(* directory, so cache operations of different workers interleave.         *)
(***************************************************************************)
EXTENDS Integers, Sequences, FiniteSets, TLC

\* ------------------------------------------------------------------ bounds
NTasks == 2
Epoch0 == 4
Horizon == 1
MaxLen == 3
MaxDefs == 2

\* ------------------------------------------------------- program constants
BASE_CURRENCY == "USD"
DayLen == 1
cache_ttl == 1

Tasks == 1..NTasks
\* The worker processes, each with one event loop.
Loops == {1, 2}

None == <<>>
Some(x) == <<x>>

\* ------------------------------------------------------------- itineraries
Currencies == {"USD", "EUR", "XXX"}

Itin(i, d, a, c) ==
    [id |-> i, duration_minutes |-> d, amount |-> a, price_currency |-> c]

Itineraries ==
    { Itin("A", 1, 2, "USD"), Itin("B", 2, 1, "USD"), Itin("C", 1, 2, "EUR"),
      Itin("D", 2, 2, "EUR"), Itin("E", 1, 1, "XXX") }

RECURSIVE SeqsUpTo(_, _)
SeqsUpTo(S, n) ==
    IF n = 0 THEN {<<>>}
    ELSE LET shorter == SeqsUpTo(S, n - 1)
         IN  shorter \cup {Append(s, x) : s \in {q \in shorter : Len(q) = n - 1}, x \in S}

\* ------------------------------------------------------------ the provider
\* What the external API can answer with: the "rates" field of its payload.
Snapshots ==
    { [c \in {"USD", "EUR"} |-> IF c = "USD" THEN <<1, 1>> ELSE <<1, 2>>],
      [c \in {"USD", "EUR"} |-> IF c = "USD" THEN <<1, 1>> ELSE <<2, 1>>],
      [c \in {"USD", "EUR"} |-> IF c = "USD" THEN <<1, 1>> ELSE <<0, 1>>] }

\* How a call of the provider can fail: raise_for_status, response.json(),
\* the ["rates"] lookup, or the transport under client.get: the connection
\* fails (an httpx.TransportError) or the client's timeout runs out (an
\* httpx.TimeoutException, a TransportError as well).
FailureCauses ==
    {"HTTPStatusError", "JSONDecodeError", "KeyError", "TransportError", "TimeoutException"}

\* The exception types ExchangeRate.get_rates hands to its wrapper.
ExchangeRateHandled == {"HTTPStatusError", "JSONDecodeError", "KeyError"}

\* A wrapper that catches every exception (except Exception).
classmethod_interpret_api_error_CatchAll(exceptions, exc) == "ExternalAPIError"

\* classmethod_interpret_api_error: an exception of a listed type becomes
\* ExternalAPIError, any other one propagates as it is.
classmethod_interpret_api_error(exceptions, exc) ==
    IF exc \in exceptions THEN "ExternalAPIError" ELSE exc

get_rates(exc) == classmethod_interpret_api_error(ExchangeRateHandled, exc)

\* -------------------------------------------------------------- diskcache
\* One key of the diskcache.Cache: absent, or a value with an expire time
\* (NoExpire: none).
NoExpire == -1
Absent == [present |-> FALSE, value |-> None, expire |-> NoExpire]

Live(e, t) == e.present /\ (e.expire = NoExpire \/ e.expire > t)

\* Cache.get(key): the value, or the default None when absent or expired.
CacheGet(c, key, t) == IF Live(c[key], t) THEN c[key].value ELSE None

\* Cache.set(key, value, expire): expire is in seconds from now.
CacheSet(c, key, value, expire, t) ==
    [c EXCEPT ![key] = [present |-> TRUE, value |-> value,
                        expire |-> IF expire = NoExpire THEN NoExpire ELSE t + expire]]

\* Cache.add(key, value): stores only when the key is absent or expired.
CacheCanAdd(c, key, t) == ~Live(c[key], t)

CacheDelete(c, key) == [c EXCEPT ![key] = Absent]

\* _LocalStorage.lock(base) is Lock(self._cache, base): the lock's key is the
\* base currency code, the key _LocalStorage.set stores the rates under.
LockKey(base) == base

\* Lock.acquire taking the key without looking at it (set in place of add).
LockCanAcquire_Unchecked(c, base, t) == TRUE

\* Lock.acquire: cache.add(key, None), spinning on time.sleep until added.
LockCanAcquire(c, base, t) == CacheCanAdd(c, LockKey(base), t)

\* An acquire that puts nothing into the cache.
LockAcquired_Nothing(c, base, t) == c

LockAcquired(c, base, t) == CacheSet(c, LockKey(base), None, NoExpire, t)

\* A release that leaves the key in the cache.
LockRelease_Kept(c, base) == c

\* Lock.release: cache.delete(key).
LockRelease(c, base) == CacheDelete(c, LockKey(base))

\* _LocalStorage.get / _LocalStorage.set
MidnightAfter(t) == ((t \div DayLen) + 1) * DayLen

StorageGet(c, base, t) == CacheGet(c, base, t)

StorageSet(c, data, base, t) == CacheSet(c, base, Some(data), MidnightAfter(t), t)

\* `x or y`: None and the empty dict are falsy.
Truthy(v) == v # None /\ DOMAIN v[1] # {}

\* ------------------------------------------------------------ the registry
\* The classes the metaclass registers when sorts/base.py is imported: name
\* -> class.  A class is its __name__ (cls), the class it inherits from
\* (bases), its name attribute, its needs_currency_rate flag and its sort
\* method: the key of a shipped class, "identity" for a sort that returns its
\* argument, "abstract" when the class does not implement sort.
SortNames == {"fastest", "cheapest", "best"}

\* Shipped classes none of which asks for rates.
ShippedSorts_NoRates ==
    [n \in SortNames |->
        [cls |-> n, bases |-> "AbstractItinerariesSort", name |-> n,
         needs_currency_rate |-> FALSE, sort |-> n]]

\* Shipped classes all of which ask for rates.
ShippedSorts_AllRates ==
    [n \in SortNames |->
        [cls |-> n, bases |-> "AbstractItinerariesSort", name |-> n,
         needs_currency_rate |-> TRUE, sort |-> n]]

ShippedSorts ==
    [n \in SortNames |->
        [cls |-> n, bases |-> "AbstractItinerariesSort", name |-> n,
         needs_currency_rate |-> n # "fastest", sort |-> n]]

\* The class statements executed after the import: type(cls, bases, namespace)
\* with or without AbstractItinerariesSort among the bases, with or without a
\* name in the namespace (a new one, the empty string, or one that is
\* registered), with or without a sort method.
ClassStatements ==
    [cls : {"NewSort"},
     bases : {"object", "AbstractItinerariesSort"},
     name : {None, Some(""), Some("new_sort"), Some("fastest")},
     sort : {"abstract", "identity"}]

\* The class object a class statement creates; needs_currency_rate is the
\* default of AbstractItinerariesSort.
ClassOf(c) ==
    [cls |-> c.cls, bases |-> c.bases, name |-> c.name[1],
     needs_currency_rate |-> FALSE, sort |-> c.sort]

\* A metaclass that registers every class that has a name.
Register_Any(reg, c) ==
    IF c.name = None THEN reg
    ELSE [n \in DOMAIN reg \cup {c.name[1]} |->
             IF n = c.name[1] THEN ClassOf(c) ELSE reg[n]]

\* A metaclass that skips a class whose name is registered already.
Register_First(reg, c) ==
    IF c.bases # "AbstractItinerariesSort" THEN reg
    ELSE IF c.name = None THEN reg
    ELSE IF c.name[1] \in DOMAIN reg THEN reg
    ELSE [n \in DOMAIN reg \cup {c.name[1]} |->
             IF n = c.name[1] THEN ClassOf(c) ELSE reg[n]]

\* _AbstractSortMeta.__new__: runs for the classes that inherit from
\* AbstractItinerariesSort; _itineraries_sorts[cls.name] = cls, and a class
\* without a name is logged and not registered.
Register(reg, c) ==
    IF c.bases # "AbstractItinerariesSort" THEN reg
    ELSE IF c.name = None THEN reg
    ELSE [n \in DOMAIN reg \cup {c.name[1]} |->
             IF n = c.name[1] THEN ClassOf(c) ELSE reg[n]]

\* get_sort_algorithms(): the keys of the registry.
get_sort_algorithms(reg) == DOMAIN reg

\* A name the registry does not hold.
RequestNames == SortNames \cup {"not_a_real_algo"}

\* The names asked for while classes are being defined.
RegistryNames == {"fastest", "new_sort", "not_a_real_algo"}

\* A lookup that falls back to the fastest sort (dict.get with a default).
Lookup_Default(reg, sort_name) ==
    IF sort_name \in DOMAIN reg THEN Some(reg[sort_name]) ELSE Some(reg["fastest"])

\* _itineraries_sorts[sort_name]: the class, or KeyError.
Lookup(reg, sort_name) ==
    IF sort_name \in DOMAIN reg THEN Some(reg[sort_name]) ELSE None

\* ---------------------------------------------------------------- the keys
\* A key is a rational n/d with d > 0, or the exception its evaluation raised.
Key(n, d) == [exc |-> "none", n |-> n, d |-> d]
Raised(e) == [exc |-> e, n |-> 0, d |-> 1]

\* get_currency_ratio: _currency_ratio.get()[currency]; the LookupError of an
\* unset context variable or of a missing code is CurrencyUnavailableException.
get_currency_ratio(ratio, currency) ==
    IF ratio = None THEN None
    ELSE IF currency \in DOMAIN ratio[1] THEN Some(ratio[1][currency]) ELSE None

\* A variable of the module, one for all requests, in place of the context
\* variable.
ContextSet_Global(ctx, t, value) == [u \in DOMAIN ctx |-> value]

\* _currency_ratio.set(value) in the context of task t: every request runs
\* in a task with a context of its own.
ContextSet(ctx, t, value) == [ctx EXCEPT ![t] = value]

\* The key lambdas of the three shipped classes.
FastestKey(ratio, it) == Key(it.duration_minutes, 1)

\* The price multiplied by the ratio instead of divided by it.
CheapestKey_Times(ratio, it) ==
    LET r == get_currency_ratio(ratio, it.price_currency)
    IN  IF r = None THEN Raised("CurrencyUnavailableException")
        ELSE IF r[1][1] = 0 THEN Raised("ZeroDivisionError")
        ELSE Key(it.amount * r[1][1], r[1][2])

CheapestKey(ratio, it) ==
    LET r == get_currency_ratio(ratio, it.price_currency)
    IN  IF r = None THEN Raised("CurrencyUnavailableException")
        ELSE IF r[1][1] = 0 THEN Raised("ZeroDivisionError")
        ELSE Key(it.amount * r[1][2], r[1][1])

BestKey(ratio, it) ==
    LET r == get_currency_ratio(ratio, it.price_currency)
    IN  IF r = None THEN Raised("CurrencyUnavailableException")
        ELSE IF r[1][1] = 0 THEN Raised("ZeroDivisionError")
        ELSE Key(it.amount * r[1][2] * it.duration_minutes, r[1][1])

KeyOf(name, ratio, it) ==
    CASE name = "fastest"  -> FastestKey(ratio, it)
      [] name = "cheapest" -> CheapestKey(ratio, it)
      [] OTHER             -> BestKey(ratio, it)

\* k1 < k2, as sorted() compares two keys.
KeyLess(k1, k2) == k1.n * k2.d < k2.n * k1.d

\* sorted(itineraries, key=...) first evaluates the key of every element, in
\* input order; the first exception ends the call.
KeysOf(name, ratio, data) == [i \in 1..Len(data) |-> KeyOf(name, ratio, data[i])]

FirstRaise(keys) ==
    IF \E i \in 1..Len(keys) : keys[i].exc # "none"
    THEN LET i == CHOOSE j \in 1..Len(keys) :
                     /\ keys[j].exc # "none"
                     /\ \A k \in 1..(j - 1) : keys[k].exc = "none"
         IN  keys[i].exc
    ELSE "none"

\* The number of key evaluations sorted() makes.
KeyCalls(keys) ==
    IF FirstRaise(keys) = "none" THEN Len(keys)
    ELSE CHOOSE j \in 1..Len(keys) :
             /\ keys[j].exc # "none"
             /\ \A k \in 1..(j - 1) : keys[k].exc = "none"

\* A sort that keeps one element per key.
InsertStable_Dedup(sorted, p) ==
    LET before == {i \in 1..Len(sorted) : KeyLess(p.key, sorted[i].key)}
        at == IF before = {} THEN Len(sorted) + 1
              ELSE CHOOSE i \in before : \A j \in before : i <= j
    IN  IF \E i \in 1..Len(sorted) :
               ~KeyLess(p.key, sorted[i].key) /\ ~KeyLess(sorted[i].key, p.key)
        THEN sorted
        ELSE SubSeq(sorted, 1, at - 1) \o <<p>> \o SubSeq(sorted, at, Len(sorted))

\* A sort that is not stable: an element goes in front of its equals.
InsertStable_TiesFirst(sorted, p) ==
    LET before == {i \in 1..Len(sorted) : ~KeyLess(sorted[i].key, p.key)}
        at == IF before = {} THEN Len(sorted) + 1
              ELSE CHOOSE i \in before : \A j \in before : i <= j
    IN  SubSeq(sorted, 1, at - 1) \o <<p>> \o SubSeq(sorted, at, Len(sorted))

\* The stable ascending sort of the (element, key) pairs: an element goes
\* behind every element already placed whose key is not greater than its own.
InsertStable(sorted, p) ==
    LET before == {i \in 1..Len(sorted) : KeyLess(p.key, sorted[i].key)}
        at == IF before = {} THEN Len(sorted) + 1
              ELSE CHOOSE i \in before : \A j \in before : i <= j
    IN  SubSeq(sorted, 1, at - 1) \o <<p>> \o SubSeq(sorted, at, Len(sorted))

RECURSIVE SortPairs(_, _)
SortPairs(pairs, n) ==
    IF n = 0 THEN <<>> ELSE InsertStable(SortPairs(pairs, n - 1), pairs[n])

\* sorted(): [exc, value]; value is the sorted list when exc is "none".
Sorted(name, ratio, data) ==
    LET keys == KeysOf(name, ratio, data)
        exc == FirstRaise(keys)
        pairs == [i \in 1..Len(data) |-> [it |-> data[i], key |-> keys[i]]]
        res == SortPairs(pairs, Len(data))
    IN  IF exc # "none" THEN [exc |-> exc, value |-> <<>>]
        ELSE [exc |-> "none", value |-> [i \in 1..Len(res) |-> res[i].it]]

\* sort_cls().sort(data): a class without a sort method is abstract and its
\* instantiation raises TypeError.
SortOf(cls, ratio, data) ==
    CASE cls.sort = "abstract" -> [exc |-> "TypeError", value |-> <<>>]
      [] cls.sort = "identity" -> [exc |-> "none", value |-> data]
      [] OTHER                 -> Sorted(cls.sort, ratio, data)

\* ------------------------------------------------------------- the handlers
\* The exception handlers of app.py: AppBadRequest -> 400,
\* AppServiceUnavailable -> 503, a reply without exception -> 200, any other
\* exception -> 500.
BadRequests == {"SortAlgorithmIsUnknown", "CurrencyUnavailableException"}
ServiceUnavailables == {"ExternalAPIError"}

\* Handlers that answer every exception as a service failure.
StatusOf_Unavailable(exc) == IF exc = "none" THEN 200 ELSE 503

StatusOf(exc) ==
    CASE exc = "none"                -> 200
      [] exc \in BadRequests         -> 400
      [] exc \in ServiceUnavailables -> 503
      [] OTHER                       -> 500

\* The JSONResponse of the two handlers; str(exc) stands for itself.
BadRequestResponse(exc) ==
    [status_code |-> 400, content |-> [reason |-> "Bad Request", error |-> exc]]

ServiceUnavailableResponse(exc) ==
    [status_code |-> 503, content |-> [reason |-> "Service Unavailable", error |-> exc]]

\* The response to a request that ended with exc: the handler registered for
\* its class, the response model for a return, the server's plain 500 for an
\* exception without handler.
Respond(exc) ==
    CASE StatusOf(exc) = 400 -> BadRequestResponse(exc)
      [] StatusOf(exc) = 503 -> ServiceUnavailableResponse(exc)
      [] StatusOf(exc) = 200 -> [status_code |-> 200, content |-> [sorted_itineraries |-> "ok"]]
      [] OTHER               -> [status_code |-> 500, content |-> [detail |-> "Internal Server Error"]]

\* ---------------------------------------------------------------- the state
VARIABLES
    now,               \* the wall clock
    cache,             \* the diskcache.Cache behind _local_storage: key -> entry
    itineraries_sorts, \* _itineraries_sorts, the registry
    running,           \* per event loop: the task that holds its thread, or 0
    loop,              \* per task: the event loop its request runs in, or 0
    pc,                \* per task: where its request stands
    req,               \* per task: the request it serves
    ret,               \* per task: what fetch_currency returned, or None
    currency_ratio,    \* per task: its context's _currency_ratio, or None
    out,               \* per task: the list the request returned, or None
    exc,               \* per task: the exception the request ended with
    fetches,           \* per task: its provider calls
    keycalls,          \* per task: the key evaluations of its sort
    cold,              \* per task: no snapshot had been stored when it called
    prior,             \* per task: the unexpired stored snapshot at its lock
    before,            \* per task: what the cache held for its base at its lock
    stored,            \* per base: the last snapshot stored, and when
    defined,           \* the classes defined since sorts/base.py was imported
    raised             \* per task: the exception raised inside get_rates, or "none"

vars == <<now, cache, itineraries_sorts, running, loop, pc, req, ret, currency_ratio,
          out, exc, fetches, keycalls, cold, prior, before, stored, defined, raised>>

Bases == {"USD", "EUR"}

\* The names and the lists a request of the concurrent specification carries.
ConcurrentNames == {"fastest", "cheapest", "not_a_real_algo"}

RequestLists == { <<Itin("D", 2, 2, "EUR"), Itin("A", 1, 2, "USD")>> }

\* The answers of the provider in the concurrent specification.
ConcurrentSnapshots ==
    { [c \in {"USD", "EUR"} |-> IF c = "USD" THEN <<1, 1>> ELSE <<1, 2>>],
      [c \in {"USD", "EUR"} |-> IF c = "USD" THEN <<1, 1>> ELSE <<2, 1>>] }

\* The lists a request of the single-request specification carries.
AllLists == SeqsUpTo(Itineraries, MaxLen)

NoRequest == [kind |-> "none", name |-> "", data |-> <<>>, base |-> ""]
SortRequest(name, data) ==
    [kind |-> "sort", name |-> name, data |-> data, base |-> BASE_CURRENCY]
RatesRequest(base) == [kind |-> "rates", name |-> "", data |-> <<>>, base |-> base]

Init ==
    /\ now = Epoch0
    /\ cache = [b \in Bases |-> Absent]
    /\ itineraries_sorts = ShippedSorts
    /\ running = [l \in Loops |-> 0]
    /\ loop = [t \in Tasks |-> 0]
    /\ pc = [t \in Tasks |-> "idle"]
    /\ req = [t \in Tasks |-> NoRequest]
    /\ ret = [t \in Tasks |-> None]
    /\ currency_ratio = [t \in Tasks |-> None]
    /\ out = [t \in Tasks |-> None]
    /\ exc = [t \in Tasks |-> "none"]
    /\ fetches = [t \in Tasks |-> 0]
    /\ keycalls = [t \in Tasks |-> 0]
    /\ cold = [t \in Tasks |-> FALSE]
    /\ prior = [t \in Tasks |-> None]
    /\ before = [t \in Tasks |-> None]
    /\ stored = [b \in Bases |-> None]
    /\ defined = <<>>
    /\ raised = [t \in Tasks |-> "none"]

\* The event loop of task t is free to run it.
LoopFree(t) == running[loop[t]] = 0

\* The stored snapshot of a base that cache_ttl has not yet expired at time t.
Unexpired(st, t) ==
    IF st # None /\ t < st[1].at + cache_ttl THEN Some(st[1].snap) ELSE None

\* sort_cls().sort(data) with the task's context variable, and the return.
RunSort(t, cls, ratio, data) ==
    LET res == SortOf(cls, ratio, data)
    IN  /\ exc' = [exc EXCEPT ![t] = res.exc]
        /\ out' = [out EXCEPT ![t] = IF res.exc = "none" THEN Some(res.value) ELSE None]
        /\ keycalls' = [keycalls EXCEPT ![t] =
                            IF cls.sort \in SortNames
                            THEN KeyCalls(KeysOf(cls.sort, ratio, data)) ELSE 0]
        /\ pc' = [pc EXCEPT ![t] = "done"]

\* sort_itineraries up to its first suspension: the lookup, then either the
\* sort itself or the entry into fetch_currency().
CallSort(t, l, name, data) ==
    /\ pc[t] = "idle"
    /\ running[l] = 0
    /\ req' = [req EXCEPT ![t] = SortRequest(name, data)]
    /\ LET cls == Lookup(itineraries_sorts, name)
       IN  IF cls = None
           THEN /\ exc' = [exc EXCEPT ![t] = "SortAlgorithmIsUnknown"]
                /\ pc' = [pc EXCEPT ![t] = "done"]
                /\ UNCHANGED <<out, keycalls, running, loop, cold>>
           ELSE IF cls[1].needs_currency_rate
           THEN /\ pc' = [pc EXCEPT ![t] = "acquire"]
                /\ running' = [running EXCEPT ![l] = t]
                /\ loop' = [loop EXCEPT ![t] = l]
                /\ cold' = [cold EXCEPT ![t] = stored[BASE_CURRENCY] = None]
                /\ UNCHANGED <<out, exc, keycalls>>
           ELSE /\ RunSort(t, cls[1], currency_ratio[t], data)
                /\ UNCHANGED <<running, loop, cold>>
    /\ UNCHANGED <<now, cache, itineraries_sorts, ret, currency_ratio, fetches,
                   prior, before, stored, defined, raised>>

\* fetch_currency(base=base) called on its own.
CallRates(t, l, base) ==
    /\ pc[t] = "idle"
    /\ running[l] = 0
    /\ req' = [req EXCEPT ![t] = RatesRequest(base)]
    /\ pc' = [pc EXCEPT ![t] = "acquire"]
    /\ running' = [running EXCEPT ![l] = t]
    /\ loop' = [loop EXCEPT ![t] = l]
    /\ cold' = [cold EXCEPT ![t] = stored[base] = None]
    /\ UNCHANGED <<now, cache, itineraries_sorts, ret, currency_ratio, out, exc,
                   fetches, keycalls, prior, before, stored, defined, raised>>

\* with _local_storage.lock(base): the add that succeeds, then the get under
\* the lock; on a miss the provider call starts and the task is suspended.
\* While the add fails the task sleeps in time.sleep and keeps its loop.
Acquire(t) ==
    /\ pc[t] = "acquire"
    /\ LockCanAcquire(cache, req[t].base, now)
    /\ LET locked == LockAcquired(cache, req[t].base, now)
           hit == StorageGet(locked, req[t].base, now)
       IN  /\ cache' = locked
           /\ prior' = [prior EXCEPT ![t] = Unexpired(stored[req[t].base], now)]
           /\ before' = [before EXCEPT ![t] = StorageGet(cache, req[t].base, now)]
           /\ IF Truthy(hit)
              THEN /\ ret' = [ret EXCEPT ![t] = hit]
                   /\ pc' = [pc EXCEPT ![t] = "release"]
                   /\ UNCHANGED <<fetches, running>>
              ELSE /\ fetches' = [fetches EXCEPT ![t] = @ + 1]
                   /\ pc' = [pc EXCEPT ![t] = "fetching"]
                   /\ running' = [running EXCEPT ![loop[t]] = 0]
                   /\ UNCHANGED ret
    /\ UNCHANGED <<now, itineraries_sorts, loop, req, currency_ratio, out, exc,
                   keycalls, cold, stored, defined, raised>>

\* The provider answers with rates: _fetch_currency_online_and_store stores
\* them and returns.
FetchOk(t, rates) ==
    /\ pc[t] = "fetching"
    /\ LoopFree(t)
    /\ cache' = StorageSet(cache, rates, req[t].base, now)
    /\ stored' = [stored EXCEPT ![req[t].base] = Some([snap |-> rates, at |-> now])]
    /\ ret' = [ret EXCEPT ![t] = Some(rates)]
    /\ pc' = [pc EXCEPT ![t] = "release"]
    /\ running' = [running EXCEPT ![loop[t]] = t]
    /\ UNCHANGED <<now, itineraries_sorts, loop, req, currency_ratio, out, exc,
                   fetches, keycalls, cold, prior, before, defined, raised>>

\* A provider call that is made once more when it has failed.
FetchFail_Retry(t, cause) ==
    /\ pc[t] = "fetching"
    /\ LoopFree(t)
    /\ IF fetches[t] < 2
       THEN /\ fetches' = [fetches EXCEPT ![t] = @ + 1]
            /\ UNCHANGED <<exc, pc, running>>
       ELSE /\ exc' = [exc EXCEPT ![t] = get_rates(cause)]
            /\ pc' = [pc EXCEPT ![t] = "release"]
            /\ running' = [running EXCEPT ![loop[t]] = t]
            /\ UNCHANGED fetches
    /\ raised' = [raised EXCEPT ![t] = cause]
    /\ UNCHANGED <<now, cache, itineraries_sorts, loop, req, ret, currency_ratio,
                   out, keycalls, cold, prior, before, stored, defined>>

\* The provider call raises: nothing is stored and the exception leaves
\* get_rates as its wrapper interprets it.
FetchFail(t, cause) ==
    /\ pc[t] = "fetching"
    /\ LoopFree(t)
    /\ raised' = [raised EXCEPT ![t] = cause]
    /\ exc' = [exc EXCEPT ![t] = get_rates(cause)]
    /\ pc' = [pc EXCEPT ![t] = "release"]
    /\ running' = [running EXCEPT ![loop[t]] = t]
    /\ UNCHANGED <<now, cache, itineraries_sorts, loop, req, ret, currency_ratio,
                   out, fetches, keycalls, cold, prior, before, stored, defined>>

\* The request of task t is cancelled: CancelledError is thrown into the
\* coroutine at the await it is suspended at, the provider call, which ends
\* with it.  A task that spins in Lock.acquire is at no await.
Cancel(t) ==
    /\ pc[t] = "fetching"
    /\ LoopFree(t)
    /\ exc' = [exc EXCEPT ![t] = "CancelledError"]
    /\ pc' = [pc EXCEPT ![t] = "release"]
    /\ running' = [running EXCEPT ![loop[t]] = t]
    /\ UNCHANGED <<now, cache, itineraries_sorts, loop, req, ret, currency_ratio,
                   out, fetches, keycalls, cold, prior, before, stored, defined, raised>>

\* The with block is left, by return or by exception: Lock.release.  Then the
\* caller goes on: an exception propagates, fetch_currency's caller has its
\* rates, sort_itineraries sets the context variable and sorts.
Release(t) ==
    /\ pc[t] = "release"
    /\ cache' = LockRelease(cache, req[t].base)
    /\ running' = [running EXCEPT ![loop[t]] = 0]
    /\ loop' = [loop EXCEPT ![t] = 0]
    /\ IF exc[t] # "none" \/ req[t].kind = "rates"
       THEN /\ pc' = [pc EXCEPT ![t] = "done"]
            /\ UNCHANGED <<currency_ratio, out, exc, keycalls>>
       ELSE /\ currency_ratio' = ContextSet(currency_ratio, t, ret[t])
            /\ RunSort(t, itineraries_sorts[req[t].name], currency_ratio'[t], req[t].data)
    /\ UNCHANGED <<now, itineraries_sorts, req, ret, fetches, cold, prior, before,
                   stored, defined, raised>>

\* Time passes.
Tick ==
    /\ now < Epoch0 + Horizon
    /\ now' = now + 1
    /\ UNCHANGED <<cache, itineraries_sorts, running, loop, pc, req, ret, currency_ratio,
                   out, exc, fetches, keycalls, cold, prior, before, stored, defined, raised>>

\* A class statement is executed: the class exists, and its metaclass, if it
\* has _AbstractSortMeta, has run.
DefineClass(c) ==
    /\ Len(defined) < MaxDefs
    /\ defined' = Append(defined, c)
    /\ itineraries_sorts' = Register(itineraries_sorts, c)
    /\ UNCHANGED <<now, cache, running, loop, pc, req, ret, currency_ratio, out, exc,
                   fetches, keycalls, cold, prior, before, stored, raised>>

Next ==
    \/ \E t \in Tasks, l \in Loops, name \in ConcurrentNames, data \in RequestLists :
           CallSort(t, l, name, data)
    \/ \E t \in Tasks, l \in Loops, base \in Bases : CallRates(t, l, base)
    \/ \E t \in Tasks : Acquire(t)
    \/ \E t \in Tasks, rates \in ConcurrentSnapshots : FetchOk(t, rates)
    \/ \E t \in Tasks, cause \in FailureCauses : FetchFail(t, cause)
    \/ \E t \in Tasks : Release(t)
    \/ Tick

Spec == Init /\ [][Next]_vars

\* One request at a time, over every list of up to MaxLen itineraries.
SortNext ==
    \/ \E name \in RequestNames, data \in AllLists : CallSort(1, 1, name, data)
    \/ Acquire(1)
    \/ \E rates \in Snapshots : FetchOk(1, rates)
    \/ \E cause \in FailureCauses : FetchFail(1, cause)
    \/ Release(1)

SortSpec == Init /\ [][SortNext]_vars

\* Classes are defined while sort requests are served.
RegistryLists == RequestLists \cup {<<>>}

RegistryNext ==
    \/ \E c \in ClassStatements : DefineClass(c)
    \/ \E t \in Tasks, name \in RegistryNames, data \in RegistryLists :
           CallSort(t, 1, name, data)

RegistrySpec == Init /\ [][RegistryNext]_vars

\* fetch_currency called on its own by one task more than the concurrent
\* specification has, with requests being cancelled, within one day.
RateTasks == 1..(NTasks + 1)

RatesCauses == {"HTTPStatusError", "TimeoutException"}

RatesSnapshots ==
    { [c \in {"USD", "EUR"} |-> IF c = "USD" THEN <<1, 1>> ELSE <<1, 2>>] }

RatesInit ==
    /\ now = Epoch0
    /\ cache = [b \in Bases |-> Absent]
    /\ itineraries_sorts = ShippedSorts
    /\ running = [l \in Loops |-> 0]
    /\ loop = [t \in RateTasks |-> 0]
    /\ pc = [t \in RateTasks |-> "idle"]
    /\ req = [t \in RateTasks |-> NoRequest]
    /\ ret = [t \in RateTasks |-> None]
    /\ currency_ratio = [t \in RateTasks |-> None]
    /\ out = [t \in RateTasks |-> None]
    /\ exc = [t \in RateTasks |-> "none"]
    /\ fetches = [t \in RateTasks |-> 0]
    /\ keycalls = [t \in RateTasks |-> 0]
    /\ cold = [t \in RateTasks |-> FALSE]
    /\ prior = [t \in RateTasks |-> None]
    /\ before = [t \in RateTasks |-> None]
    /\ stored = [b \in Bases |-> None]
    /\ defined = <<>>
    /\ raised = [t \in RateTasks |-> "none"]

RatesNext ==
    \/ \E t \in RateTasks, l \in Loops, base \in Bases : CallRates(t, l, base)
    \/ \E t \in RateTasks : Acquire(t)
    \/ \E t \in RateTasks, rates \in RatesSnapshots : FetchOk(t, rates)
    \/ \E t \in RateTasks, cause \in RatesCauses : FetchFail(t, cause)
    \/ \E t \in RateTasks : Cancel(t)
    \/ \E t \in RateTasks : Release(t)

RatesSpec == RatesInit /\ [][RatesNext]_vars

\* ================================================================ the claims
\* Task t has entered fetch_currency for base b.
CalledRates(t, b) ==
    /\ pc[t] # "idle"
    /\ req[t].base = b
    /\ \/ req[t].kind = "rates"
       \/ /\ req[t].kind = "sort"
          /\ req[t].name \in DOMAIN itineraries_sorts
          /\ itineraries_sorts[req[t].name].needs_currency_rate

\* Task t is past the lock of its fetch_currency call.
PastLock(t) == \E b \in Bases : CalledRates(t, b) /\ pc[t] # "acquire"

\* The provider calls of a set of tasks.
RECURSIVE SumFetches(_)
SumFetches(S) ==
    IF S = {} THEN 0
    ELSE LET t == CHOOSE x \in S : TRUE IN fetches[t] + SumFetches(S \ {t})

\* C1: when two or more fetch_currency calls for one base are all made before
\* any snapshot was stored and all return rates, the provider was called
\* exactly once in total and all of them returned the same snapshot.
C1_SingleFlight ==
    \A b \in Bases :
        LET S == {t \in Tasks : CalledRates(t, b)}
        IN  ( /\ Cardinality(S) >= 2
              /\ \A t \in S : pc[t] = "done" /\ cold[t] /\ ret[t] # None )
            => ( /\ SumFetches(S) = 1
                 /\ \A t, u \in S : ret[t] = ret[u] )

\* C2: no two provider calls for the same base currency are in flight at the
\* same time.
C2_OneFetchInFlight ==
    \A t, u \in Tasks :
        (t # u /\ pc[t] = "fetching" /\ pc[u] = "fetching")
            => req[t].base # req[u].base

\* One call is in flight while another call for the same base waits for the lock.
C2_Witness ==
    \E t, u \in Tasks :
        /\ pc[t] = "fetching"
        /\ pc[u] = "acquire"
        /\ req[t].base = req[u].base

\* C3: a call made after a snapshot of its base was stored, and taking the
\* lock while that snapshot is younger than cache_ttl, returns that snapshot
\* without calling the provider; a call that takes the lock when no snapshot
\* was stored or the last one is cache_ttl old calls the provider.
C3_ExpiryCorrectness ==
    \A t \in Tasks :
        PastLock(t) =>
            /\ (~cold[t] /\ prior[t] # None) =>
                  /\ fetches[t] = 0
                  /\ pc[t] = "done" => ret[t] = prior[t]
            /\ prior[t] = None => fetches[t] = 1

\* The provider call of task t has failed.
FetchFailed(t) == pc[t] \in {"release", "done"} /\ fetches[t] = 1 /\ ret[t] = None

\* C4: a fetch_currency call whose provider call fails ends with
\* ExternalAPIError (ProviderError), and neither the step that delivers the
\* failure nor the end of the call changes what the cache holds for the base:
\* no snapshot is stored, none is removed, no expiration moves.
C4_FailureLeavesCache ==
    [][\A t \in Tasks :
          /\ (pc[t] = "fetching" /\ pc'[t] = "release" /\ ret'[t] = None)
                => (exc'[t] = "ExternalAPIError" /\ cache' = cache)
          /\ (pc[t] = "release" /\ FetchFailed(t) /\ pc'[t] = "done")
                => /\ exc'[t] = "ExternalAPIError"
                   /\ StorageGet(cache', req[t].base, now') = before[t]
                   /\ stored' = stored]_vars

\* The request of task t is a sort with a registered algorithm that needs rates.
RateSort(t) ==
    /\ req[t].kind = "sort"
    /\ req[t].name \in DOMAIN itineraries_sorts
    /\ itineraries_sorts[req[t].name].needs_currency_rate

\* C5: a sort with a rate-requiring algorithm whose input holds an itinerary
\* priced in a currency that the fetched snapshot lacks ends with
\* CurrencyUnavailableException (UnknownCurrency) and returns no list,
\* wherever that itinerary stands and whatever the other itineraries are.
C5_UnknownCurrencyRejected ==
    \A t \in Tasks :
        ( /\ pc[t] = "done"
          /\ RateSort(t)
          /\ ret[t] # None
          /\ \E i \in 1..Len(req[t].data) :
                 req[t].data[i].price_currency \notin DOMAIN ret[t][1] )
        => (exc[t] = "CurrencyUnavailableException" /\ out[t] = None)

\* C6: a sort request whose name is not among get_sort_algorithms() ends with
\* SortAlgorithmIsUnknown at once, for every input: it never waits for the
\* lock or the provider, fetches no rates, sets no context variable,
\* evaluates no key and returns no list.
C6_UnknownAlgorithmRejected ==
    \A t \in Tasks :
        (req[t].kind = "sort" /\ req[t].name \notin get_sort_algorithms(itineraries_sorts))
        => /\ pc[t] = "done"
           /\ exc[t] = "SortAlgorithmIsUnknown"
           /\ fetches[t] = 0
           /\ ret[t] = None
           /\ currency_ratio[t] = None
           /\ keycalls[t] = 0
           /\ out[t] = None

\* A request with an unregistered name and the empty list has ended.
C6_Witness ==
    \E t \in Tasks :
        /\ pc[t] = "done"
        /\ req[t].kind = "sort"
        /\ req[t].name = "not_a_real_algo"
        /\ req[t].data = <<>>
        /\ exc[t] = "SortAlgorithmIsUnknown"

\* The list is in ascending order of duration_minutes.
AscendingByDuration(l) ==
    \A i, j \in 1..Len(l) : i < j => l[i].duration_minutes <= l[j].duration_minutes

\* C7: a sort with a rate-requiring algorithm whose provider call fails (no
\* snapshot being cached) is answered with 503, the service-unavailable kind,
\* and a fastest sort succeeds with its input ordered by duration whatever
\* the provider does.
C7_GracefulDegradation ==
    \A t \in Tasks :
        /\ (pc[t] = "done" /\ RateSort(t) /\ FetchFailed(t))
              => (exc[t] \in ServiceUnavailables /\ StatusOf(exc[t]) = 503)
        /\ (pc[t] = "done" /\ req[t].kind = "sort" /\ req[t].name = "fastest")
              => /\ exc[t] = "none"
                 /\ out[t] # None
                 /\ AscendingByDuration(out[t][1])
                 /\ fetches[t] = 0

\* The number of places of list l that hold x.
Count(l, x) == Cardinality({i \in 1..Len(l) : l[i] = x})

\* The number of places of list l whose itinerary has identifier id.
CountId(l, id) == Cardinality({i \in 1..Len(l) : l[i].id = id})

\* A sort request of task t has returned a list.
Sorted_Ok(t) ==
    /\ pc[t] = "done"
    /\ req[t].kind = "sort"
    /\ req[t].name \in SortNames
    /\ exc[t] = "none"
    /\ out[t] # None

\* C8: the list a successful sort returns is a permutation of its input: the
\* same length, every identifier and every itinerary as often as in the input.
C8_Permutation ==
    \A t \in Tasks :
        Sorted_Ok(t) =>
            /\ Len(out[t][1]) = Len(req[t].data)
            /\ \A x \in Itineraries :
                   /\ Count(out[t][1], x) = Count(req[t].data, x)
                   /\ CountId(out[t][1], x.id) = CountId(req[t].data, x.id)

\* A rate-requiring sort has returned three itineraries, one of them twice.
C8_Witness ==
    \E t \in Tasks :
        /\ Sorted_Ok(t)
        /\ req[t].name = "best"
        /\ Len(out[t][1]) >= 3
        /\ \E x \in Itineraries : Count(req[t].data, x) = 2

\* The key the claim gives each algorithm, as the rational <<n, d>>, for a
\* ratio <<rn, rd>> that is not 0.
ClaimKey(name, snapshot, it) ==
    LET r == snapshot[it.price_currency]
    IN  CASE name = "fastest"  -> <<it.duration_minutes, 1>>
          [] name = "cheapest" -> <<it.amount * r[2], r[1]>>
          [] OTHER             -> <<it.amount * r[2] * it.duration_minutes, r[1]>>

\* The snapshot a sort of task t reads: the fetched one; fastest reads none.
SnapshotOf(t) ==
    IF ret[t] # None THEN ret[t][1]
    ELSE [c \in Currencies |-> <<1, 1>>]

RatLess(a, b) == a[1] * b[2] < b[1] * a[2]

\* The lists that are the list l in another order.
Rearrangements(l) ==
    { [i \in 1..Len(l) |-> l[p[i]]] :
        p \in {q \in [1..Len(l) -> 1..Len(l)] :
                  \A i, j \in 1..Len(l) : i # j => q[i] # q[j]} }

\* C9: the list a successful sort returns is in ascending order of the key of
\* its algorithm, and when the keys of the input are pairwise distinct, the
\* sort of every rearrangement of the input is that same list.
C9_OrderedByKey ==
    \A t \in Tasks :
        Sorted_Ok(t) =>
            LET l == out[t][1]
                k(x) == ClaimKey(req[t].name, SnapshotOf(t), x)
            IN  /\ \A i, j \in 1..Len(l) : i < j => ~RatLess(k(l[j]), k(l[i]))
                /\ (\A i, j \in 1..Len(l) : i # j => k(l[i]) # k(l[j]) /\
                        (RatLess(k(l[i]), k(l[j])) \/ RatLess(k(l[j]), k(l[i]))))
                   => \A m \in Rearrangements(req[t].data) :
                          Sorted(req[t].name, currency_ratio[t], m) =
                              [exc |-> "none", value |-> l]

\* A cheapest sort has reordered three itineraries of pairwise distinct keys,
\* priced in two currencies.
C9_Witness ==
    \E t \in Tasks :
        /\ Sorted_Ok(t)
        /\ req[t].name = "cheapest"
        /\ Len(out[t][1]) = 3
        /\ out[t][1] # req[t].data
        /\ \E i, j \in 1..3 : out[t][1][i].price_currency # out[t][1][j].price_currency
        /\ \A i, j \in 1..3 :
               i < j => RatLess(ClaimKey("cheapest", SnapshotOf(t), out[t][1][i]),
                                ClaimKey("cheapest", SnapshotOf(t), out[t][1][j]))

\* C10: sorting the list a successful sort returned, with the same algorithm
\* and snapshot, returns that list again, itineraries of equal keys in the
\* same relative order.
C10_Idempotent ==
    \A t \in Tasks :
        Sorted_Ok(t) =>
            Sorted(req[t].name, currency_ratio[t], out[t][1]) =
                [exc |-> "none", value |-> out[t][1]]

\* A sort has returned a list in which two different itineraries have equal keys.
C10_Witness ==
    \E t \in Tasks :
        /\ Sorted_Ok(t)
        /\ \E i, j \in 1..Len(out[t][1]) :
               /\ i < j
               /\ out[t][1][i] # out[t][1][j]
               /\ ClaimKey(req[t].name, SnapshotOf(t), out[t][1][i]) =
                      ClaimKey(req[t].name, SnapshotOf(t), out[t][1][j])

\* C11: every provider call that fails, whatever the cause (transport error,
\* non-success status, malformed payload, payload without the rates key), ends
\* with ExternalAPIError; no other exception kind leaves the provider.
C11_SingleErrorKind ==
    \A t \in DOMAIN pc :
        (FetchFailed(t) /\ exc[t] # "CancelledError") => exc[t] = "ExternalAPIError"

\* C12: a provider call that times out never leaves fetch_currency as the
\* raw timeout exception: it ends with ExternalAPIError like every other
\* provider failure, and when the failure is delivered the cache holds for
\* the base what it held when the call took the lock.
C12_TimeoutIsProviderError ==
    \A t \in DOMAIN pc :
        /\ exc[t] # "TimeoutException"
        /\ (pc[t] = "release" /\ FetchFailed(t) /\ exc[t] # "CancelledError")
              => StorageGet(cache, req[t].base, now) = before[t]

\* C13: an entry of the registry is never replaced: a class statement whose
\* name is already registered leaves the entry of that name as it was, so
\* the lookup of a name keeps returning the class registered first.
C13_NoOverwrite ==
    [][\A n \in get_sort_algorithms(itineraries_sorts) :
          Lookup(itineraries_sorts', n) = Lookup(itineraries_sorts, n)]_vars

\* C14: after the import of sorts/base.py the registry never changes: in
\* every later state get_sort_algorithms() is the set of the shipped names
\* and every name is looked up to its shipped class.
C14_ReadOnlyRegistry ==
    /\ get_sort_algorithms(itineraries_sorts) = get_sort_algorithms(ShippedSorts)
    /\ \A n \in RequestNames \cup RegistryNames :
           Lookup(itineraries_sorts, n) = Lookup(ShippedSorts, n)

\* The class statement a step executes.
LastDefined == defined[Len(defined)]

\* C15: a class statement with AbstractItinerariesSort among its bases and a
\* name puts that name into get_sort_algorithms() and the new class behind
\* it, and a sort request with that name runs the sort of that class; a class
\* statement without AbstractItinerariesSort among its bases leaves the
\* registry as it is, name or no name, so no registered class is such a class.
C15_SelfRegistration ==
    [][/\ (defined' # defined) =>
              LET c == defined'[Len(defined')]
              IN  /\ (c.bases = "AbstractItinerariesSort" /\ c.name # None) =>
                        /\ c.name[1] \in get_sort_algorithms(itineraries_sorts')
                        /\ Lookup(itineraries_sorts', c.name[1]) = Some(ClassOf(c))
                  /\ c.bases = "object" => itineraries_sorts' = itineraries_sorts
                  /\ \A n \in get_sort_algorithms(itineraries_sorts') :
                         itineraries_sorts'[n].bases = "AbstractItinerariesSort"
       /\ \A t \in DOMAIN pc :
              ( /\ pc[t] = "idle" /\ pc'[t] = "done"
                /\ defined # <<>>
                /\ LastDefined.bases = "AbstractItinerariesSort"
                /\ LastDefined.name = Some(req'[t].name) )
              => /\ LastDefined.sort = "identity" =>
                        (exc'[t] = "none" /\ out'[t] = Some(req'[t].data))
                 /\ LastDefined.sort = "abstract" =>
                        (exc'[t] = "TypeError" /\ out'[t] = None)]_vars

\* A class with a name but without AbstractItinerariesSort among its bases
\* was defined, then a class that inherits from it with the name new_sort and
\* a sort returning its argument, and a request for new_sort has been served
\* by that class: its two itineraries come back in the order they were sent.
C15_Witness ==
    /\ Len(defined) = 2
    /\ defined[1].bases = "object" /\ defined[1].name = Some("new_sort")
    /\ defined[2].bases = "AbstractItinerariesSort"
    /\ defined[2].name = Some("new_sort") /\ defined[2].sort = "identity"
    /\ "new_sort" \in get_sort_algorithms(itineraries_sorts)
    /\ \E t \in DOMAIN pc :
           /\ pc[t] = "done"
           /\ req[t].name = "new_sort"
           /\ Len(req[t].data) = 2
           /\ out[t] = Some(req[t].data)

C17_CancellationSafety ==
    [][\A t \in DOMAIN pc :
          ( /\ pc[t] = "fetching"
            /\ pc'[t] = "release"
            /\ exc'[t] = "CancelledError"
            /\ \E u \in DOMAIN pc :
                   u # t /\ pc[u] = "acquire" /\ req[u].base = req[t].base )
          => \E w \in DOMAIN pc :
                 pc'[w] = "fetching" /\ req'[w].base = req[t].base]_vars

\* A call of fetch_currency for base b is inside the with block.
InsideLock(b) ==
    \E t \in DOMAIN pc : CalledRates(t, b) /\ pc[t] \in {"fetching", "release"}

\* C19: a fetch_currency call that has finished, by returning rates, by
\* ExternalAPIError, by another exception or by cancellation, holds the lock
\* of its base no longer: whenever no call for a base is inside the with
\* block, a call for that base can take the lock.
C19_LockReleased ==
    \A b \in Bases :
        ~InsideLock(b) => LockCanAcquire(cache, b, now)

\* Calls for one base have finished with rates, with ExternalAPIError, with a
\* raw exception or cancelled, and a later call for that base has the lock.
C19_Witness ==
    \E b \in Bases :
        /\ \E t \in DOMAIN pc :
               CalledRates(t, b) /\ pc[t] = "done" /\ exc[t] = "CancelledError"
        /\ \E t \in DOMAIN pc :
               CalledRates(t, b) /\ pc[t] = "done" /\ exc[t] \in {"ExternalAPIError", "TimeoutException"}
        /\ \E t \in DOMAIN pc :
               CalledRates(t, b) /\ pc[t] = "fetching" /\ cache[LockKey(b)].present

\* C20: a fetch_currency call for one base that holds its lock is never kept
\* from going on by the lock of another base: the task that holds its event
\* loop is never one that waits in Lock.acquire for a lock held by a call
\* for a different base.
C20_PerBaseLocking ==
    \A t, u \in DOMAIN pc :
        ( /\ t # u
          /\ pc[t] = "fetching"
          /\ running[loop[t]] = u
          /\ pc[u] = "acquire"
          /\ ~LockCanAcquire(cache, req[u].base, now) )
        => req[u].base = req[t].base

\* C18: the context variable of a request holds nothing until the request
\* has its own snapshot from fetch_currency and holds that snapshot from
\* then on, whatever other requests fetch or set meanwhile, and the list a
\* rate-requiring sort returns is the sort of its input with every key
\* computed from that one snapshot.
C18_SnapshotIsolation ==
    \A t \in DOMAIN pc :
        /\ pc[t] # "done" => currency_ratio[t] = None
        /\ (pc[t] = "done" /\ RateSort(t) /\ ret[t] # None) =>
               /\ currency_ratio[t] = ret[t]
               /\ exc[t] = "none" =>
                      out[t] = Some(Sorted(req[t].name, ret[t], req[t].data).value)
        /\ (pc[t] = "done" /\ ~(RateSort(t) /\ ret[t] # None)) => currency_ratio[t] = None

\* Two rate-requiring sorts of the same input have finished, each with a
\* snapshot of its own, and the two snapshots order the input differently.
C18_Witness ==
    \E t, u \in DOMAIN pc :
        /\ t # u
        /\ pc[t] = "done" /\ RateSort(t) /\ exc[t] = "none"
        /\ pc[u] = "done" /\ RateSort(u) /\ exc[u] = "none"
        /\ req[t] = req[u]
        /\ ret[t] # ret[u]
        /\ out[t] # out[u]
        /\ currency_ratio[t] = ret[t]
        /\ currency_ratio[u] = ret[u]

\* C21: a sort of the empty list with a registered algorithm returns the
\* empty list; with cheapest or best fetch_currency is called first all the
\* same (the request passes the lock and the provider is asked), and the
\* empty list is returned whatever snapshot came back.
C21_EmptyInput ==
    \A t \in DOMAIN pc :
        ( /\ req[t].kind = "sort"
          /\ req[t].name \in get_sort_algorithms(itineraries_sorts)
          /\ req[t].data = <<>>
          /\ pc[t] = "done" )
        => /\ req[t].name = "fastest" => (exc[t] = "none" /\ out[t] = Some(<<>>))
           /\ req[t].name \in {"cheapest", "best"} =>
                  /\ fetches[t] = 1
                  /\ ret[t] # None =>
                         /\ currency_ratio[t] = ret[t]
                         /\ exc[t] = "none"
                         /\ out[t] = Some(<<>>)
                         /\ keycalls[t] = 0

\* A best sort of the empty list has fetched a snapshot and returned the
\* empty list.
C21_Witness ==
    \E t \in DOMAIN pc :
        /\ pc[t] = "done"
        /\ req[t].kind = "sort"
        /\ req[t].name = "best"
        /\ req[t].data = <<>>
        /\ fetches[t] = 1
        /\ ret[t] # None
        /\ out[t] = Some(<<>>)

\* A call of fetch_currency is in progress.
InProgress(t) == pc[t] \in {"acquire", "fetching", "release"}

\* C22: with a provider that answers every call, every fetch_currency call
\* returns: whenever calls are in progress, one of them can go on (take the
\* lock, receive the answer of the provider, or leave the with block), calls
\* for one base started in one event loop included; a call that waits for
\* the lock never keeps the holder of the lock from receiving its answer.
C22_Progress ==
    (\E t \in DOMAIN pc : InProgress(t)) =>
        ENABLED ( \/ \E u \in DOMAIN pc : Acquire(u)
                  \/ \E u \in DOMAIN pc, rates \in ConcurrentSnapshots : FetchOk(u, rates)
                  \/ \E u \in DOMAIN pc : Release(u) )

\* The cache holds a snapshot for base b (not the placeholder of a lock).
HoldsSnapshot(c, b) == c[b].present /\ c[b].value # None

\* C23: a snapshot is stored with the expiration now + cache_ttl: while the
\* cache holds the snapshot stored last for a base, the expire time of the
\* entry is the time of that store plus cache_ttl.
C23_ExpirationIsTtl ==
    \A b \in Bases :
        (stored[b] # None /\ HoldsSnapshot(cache, b) /\ cache[b].value = Some(stored[b][1].snap))
            => cache[b].expire = stored[b][1].at + cache_ttl

\* C24: a snapshot the cache holds for a base stays there until it expires:
\* after every step the cache still holds a snapshot for that base, the same
\* one or one stored by the step, unless the held one has expired; leaving
\* the with block of the lock is such a step.
C24_SnapshotKept ==
    [][\A b \in Bases :
          (HoldsSnapshot(cache, b) /\ Live(cache[b], now'))
              => /\ HoldsSnapshot(cache', b)
                 /\ (cache'[b] = cache[b] \/ stored'[b] # stored[b])]_vars

\* C25: a step that writes a snapshot into the cache entry of a base is taken
\* by a call that is inside the with block of that base's lock, the only
\* such call, while the key of the lock is in the cache.
C25_WriteUnderLock ==
    [][\A b \in Bases :
          (HoldsSnapshot(cache', b) /\ cache'[b] # cache[b])
              => \E t \in DOMAIN pc :
                     /\ CalledRates(t, b)
                     /\ pc[t] = "fetching" /\ pc'[t] = "release"
                     /\ cache'[b].value = ret'[t]
                     /\ Live(cache[LockKey(b)], now)
                     /\ \A u \in DOMAIN pc :
                            (u # t /\ CalledRates(u, b)) => pc[u] \in {"acquire", "done"}]_vars

\* A call has written its snapshot and is still inside the with block while
\* another call for the same base waits for the lock.
C25_Witness ==
    \E t, u \in DOMAIN pc :
        /\ t # u
        /\ pc[t] = "release"
        /\ ret[t] # None
        /\ cache[req[t].base].value = ret[t]
        /\ pc[u] = "acquire"
        /\ req[u].base = req[t].base

\* C26: a sort with fastest, whose needs_currency_rate is false, ends in the
\* step that starts it, whatever currencies its itineraries are priced in:
\* it never waits for the lock, the provider is not called, nothing is
\* fetched or set, and the cache and the stored snapshots are as before.
C26_NoRatesForFastest ==
    [][\A t \in DOMAIN pc :
          (pc[t] = "idle" /\ req'[t].kind = "sort" /\ req'[t].name = "fastest")
              => /\ pc'[t] = "done"
                 /\ exc'[t] = "none"
                 /\ cache' = cache
                 /\ stored' = stored
                 /\ fetches'[t] = 0
                 /\ ret'[t] = None
                 /\ currency_ratio'[t] = None
                 /\ running' = running]_vars

\* A fastest sort of a list with an itinerary priced in EUR has returned
\* while another request holds the lock and awaits the provider.
C26_Witness ==
    \E t, u \in DOMAIN pc :
        /\ pc[t] = "done"
        /\ req[t].kind = "sort"
        /\ req[t].name = "fastest"
        /\ \E i \in 1..Len(req[t].data) : req[t].data[i].price_currency # BASE_CURRENCY
        /\ out[t] # None
        /\ pc[u] = "fetching"
        /\ cache[req[u].base].present

\* What _local_storage.get returns to task t under the lock it takes now.
GetUnderLock(t) ==
    StorageGet(LockAcquired(cache, req[t].base, now), req[t].base, now)

\* C27: a fetch_currency call asks the provider at most once: once when the
\* get under the lock misses, not at all when it hits; when the provider call
\* has ended, by rates or by failure, the call leaves the with block and
\* neither it nor the sort request it serves asks the provider again.
C27_NoRetries ==
    [][\A t \in DOMAIN pc :
          /\ fetches'[t] <= 1
          /\ fetches'[t] # fetches[t] => (pc[t] = "acquire" /\ pc'[t] = "fetching")
          /\ (pc[t] = "acquire" /\ pc'[t] # "acquire") =>
                 IF Truthy(GetUnderLock(t))
                 THEN fetches'[t] = 0 /\ pc'[t] = "release"
                 ELSE fetches'[t] = 1 /\ pc'[t] = "fetching"
          /\ (pc[t] = "fetching" /\ pc'[t] # "fetching") => pc'[t] = "release"
          /\ pc[t] \in {"release", "done"} =>
                 (pc'[t] \in {"release", "done"} /\ fetches'[t] = fetches[t])]_vars

\* A cheapest sort whose provider call failed has ended with that failure
\* after one provider call.
C27_Witness ==
    \E t \in DOMAIN pc :
        /\ pc[t] = "done"
        /\ RateSort(t)
        /\ exc[t] = "ExternalAPIError"
        /\ ret[t] = None
        /\ fetches[t] = 1

\* C28: a sort with a shipped algorithm that has ended, the provider having
\* returned a snapshot where one was needed, ended with its sorted list or
\* with CurrencyUnavailableException, for every snapshot the provider can
\* return, one with the ratio 0 for a used currency included; a list is
\* returned exactly when no exception is.
C28_ClosedTaxonomy ==
    \A t \in DOMAIN pc :
        ( /\ pc[t] = "done"
          /\ req[t].kind = "sort"
          /\ req[t].name \in SortNames
          /\ (RateSort(t) => ret[t] # None) )
        => /\ exc[t] \in {"none", "CurrencyUnavailableException"}
           /\ exc[t] = "none" <=> out[t] # None

\* C29: the exception a failed provider call leaves get_rates with is
\* ExternalAPIError exactly when the exception raised inside is an HTTP
\* status error, a JSON decode error or a KeyError; every other exception
\* raised inside leaves get_rates as it is.
C29_WrapperListedOnly ==
    \A t \in DOMAIN pc :
        raised[t] # "none" =>
            /\ exc[t] = "ExternalAPIError"
                   <=> raised[t] \in {"HTTPStatusError", "JSONDecodeError", "KeyError"}
            /\ exc[t] # "ExternalAPIError" => exc[t] = raised[t]

\* A KeyError raised inside get_rates has left it as ExternalAPIError.
C29_Witness ==
    \E t \in DOMAIN pc :
        /\ pc[t] = "done"
        /\ raised[t] = "KeyError"
        /\ exc[t] = "ExternalAPIError"

\* The class statements so far that define a sort class named n.
DefinitionsOf(n) ==
    {i \in 1..Len(defined) :
        defined[i].bases = "AbstractItinerariesSort" /\ defined[i].name = Some(n)}

\* The last of them.
LatestOf(n) == CHOOSE i \in DOMAIN defined :
                   i \in DefinitionsOf(n) /\ \A j \in DefinitionsOf(n) : j <= i

\* A class was defined under the name n when n was registered already.
Redefined(n) ==
    \E i \in DefinitionsOf(n) :
        n \in get_sort_algorithms(ShippedSorts) \/ \E j \in DefinitionsOf(n) : j < i

\* C30: once a class has been defined under a name the registry held
\* already, a sort request with that name is served by the class defined
\* last under it: it fails with TypeError when that class has no sort method
\* and returns what its sort method returns when it has one.
C30_LastDefinitionWins ==
    [][\A t \in DOMAIN pc :
          ( /\ pc[t] = "idle" /\ pc'[t] = "done"
            /\ req'[t].kind = "sort"
            /\ Redefined(req'[t].name) )
          => LET c == defined[LatestOf(req'[t].name)]
             IN  /\ Lookup(itineraries_sorts, req'[t].name) = Some(ClassOf(c))
                 /\ c.sort = "abstract" => (exc'[t] = "TypeError" /\ out'[t] = None)
                 /\ c.sort = "identity" =>
                        (exc'[t] = "none" /\ out'[t] = Some(req'[t].data))]_vars

\* A class without sort method was defined under new_sort and a request for
\* new_sort failed with TypeError; the class was defined again with a sort
\* method and a request for new_sort returned its list.
C30_Witness ==
    /\ Len(defined) = 2
    /\ DefinitionsOf("new_sort") = {1, 2}
    /\ defined[1].sort = "abstract"
    /\ defined[2].sort = "identity"
    /\ \E t, u \in DOMAIN pc :
           /\ pc[t] = "done" /\ req[t].name = "new_sort" /\ exc[t] = "TypeError"
           /\ pc[u] = "done" /\ req[u].name = "new_sort" /\ exc[u] = "none"
           /\ out[u] = Some(req[u].data)

\* C31: a class statement whose class has no name, or the empty string as
\* its name, adds nothing to the registry: the names the registry holds
\* after the statement are the names it held before.
C31_NamelessNotRegistered ==
    [][\A c \in ClassStatements :
          ( /\ defined' = Append(defined, c)
            /\ (c.name = None \/ c.name = Some("")) )
          => get_sort_algorithms(itineraries_sorts') =
                 get_sort_algorithms(itineraries_sorts)]_vars

\* The cache entry the last _LocalStorage.set of base b wrote.
LastSet(b) == StorageSet(cache, stored[b][1].snap, b, stored[b][1].at)[b]

\* C32: _LocalStorage.get(base) returns the data the last
\* _LocalStorage.set(data, base=base) stored for as long as the entry that
\* set wrote has not expired, and None when that entry has expired or no
\* set was made for the base.
C32_StorageRoundTrip ==
    \A b \in Bases :
        StorageGet(cache, b, now) =
            IF stored[b] # None /\ Live(LastSet(b), now)
            THEN Some(stored[b][1].snap)
            ELSE None

====
